---- MODULE Spec2Model ----
(***************************************************************************)
(* Realtime Gmail Listener: the Apps Script relay (processNewEmails and    *)
(* pullEmailsSince) run against a Gmail mailbox, a script-property store,  *)
(* the 'Emails' sheet and the two chat channels.                           *)
(*                                                                         *)
(* A relay run is one invocation of processNewEmails.  Its steps are the   *)
(* I/O calls of the code, in the order the code makes them; everything the *)
(* code computes between two calls belongs to the step of the earlier call.*)
(* The per-message lookups of one history page are part of the page's step:*)
(* they read only the mailbox, and a message deleted between the listing   *)
(* and its lookup behaves as one deleted just before the listing.          *)
(***************************************************************************)
EXTENDS Integers, Sequences, FiniteSets, TLC

(* ---- bounds ---- *)
MaxHistoryId == 3       \* the mailbox's history id stops growing here
MaxRuns      == 2       \* relay runs in progress at the same time
PageSize     == 1       \* history records per page of History.list
MaxCalls     == 3       \* invocations of initWatch and stopWatch
MaxTriggers  == 3       \* triggers a script may have (ScriptApp's quota)
MaxColLen    == 2       \* letters in a column name

(* ---- values of the program ---- *)
NoCursor   == -1        \* getProperty('lastHistoryId') === null
EmptyId    == 0         \* the empty string '' as a history id
NoToken    == 0         \* pageToken null / nextPageToken undefined
HeaderRows == 1         \* SHEETCONFIG[SHEETNAME_EMAILS].layout.headerRows
NoProperty == "null"    \* getProperty of a key that was never set
NoWatch == 0            \* no watch registered
NoUid == 0              \* e.triggerUid of a run that no trigger started
OneHour == 1            \* 60 * 60 * 1000 ms; times are in hours

Runs == 1 .. MaxRuns
Ids  == 1 .. MaxHistoryId

(* ---- MESSAGES ---- *)
\* MESSAGES has no key 'noHistory': the message of the listing-failure
\* result is undefined.
MsgInvalidApiKey  == "invalidApiKey"
MsgInvalidTask    == "invalidTask"
MsgInvalidData    == "invalidData"
MsgNoHistory      == "undefined"
MsgNoProcess      == "noProcess"
MsgProcessSuccess == "processSuccess"

\* the messages MESSAGES defines
Messages ==
    {MsgInvalidApiKey, MsgInvalidTask, MsgInvalidData, MsgNoProcess,
     MsgProcessSuccess}

(* ---- POST data ---- *)
\* obj: isObject(data); fields: its own properties among the required ones;
\* historyId, emailAddress: the values (EmptyId and "" when empty or absent).
RequiredFields == {"emailAddress", "historyId"}

Payload(obj, fields, addr, hid) ==
    [obj |-> obj, fields |-> fields, emailAddress |-> addr, historyId |-> hid]

\* The payloads a caller can post while the mailbox is at history id `top`:
\* Gmail's notifications carry a history id the mailbox has reached.
Payloads(top) ==
    {Payload(FALSE, {}, "", EmptyId)}
    \cup {Payload(TRUE, f, "", EmptyId) : f \in {{}, {"emailAddress"}}}
    \cup {Payload(TRUE, {"historyId"}, "", h) : h \in 1 .. top}
    \cup {Payload(TRUE, RequiredFields, "user", h) : h \in 0 .. top}
    \cup {Payload(TRUE, RequiredFields, "", top)}

(* ---- POST body ---- *)
\* the key the web app is configured with, and one that differs from it
ApiKey   == "configured"
WrongKey == "other"

\* API_HANDLERS: the property names whose value is a function
ApiHandlers == {"processNewEmails"}

Tasks == ApiHandlers \cup {"unknownTask"}

Body(key, task, d) == [apiKey |-> key, task |-> task, data |-> d]

\* What a caller can post: the proxy's requests, with any payload, and
\* requests with another key or another task.
Bodies(top) ==
    {Body(ApiKey, "processNewEmails", d) : d \in Payloads(top)}
    \cup {Body(k, t, Payload(TRUE, RequiredFields, "user", top)) :
              k \in {ApiKey, WrongKey}, t \in Tasks}

\* variant: the task is looked up without comparing the key
DoPostRouteNoKeyCheck(body) ==
    IF body.task \notin ApiHandlers THEN MsgInvalidTask
    ELSE body.task

\* doPost: the key is compared first, then the task is looked up; the
\* result is the handler to call or the message of the refusal
DoPostRoute(body) ==
    IF body.apiKey # ApiKey THEN MsgInvalidApiKey
    ELSE IF body.task \notin ApiHandlers THEN MsgInvalidTask
    ELSE body.task

\* variant: isObject(data) alone
IsValidDataNoFieldCheck(d) == d.obj

\* isObject(data) && requiredFields.every(hasOwnProperty)
IsValidData(d) == d.obj /\ RequiredFields \subseteq d.fields

\* x || y on property values: null and '' are falsy.
Falsy(v) == v = NoCursor \/ v = EmptyId

\* variant: data.historyId || getProperty('lastHistoryId')
EffectiveCursorNotificationWins(stored, d) ==
    IF ~Falsy(d.historyId) THEN d.historyId ELSE stored

\* SCRIPT_PROPS.getProperty('lastHistoryId') || data.historyId
EffectiveCursor(stored, d) == IF ~Falsy(stored) THEN stored ELSE d.historyId

(* ---- Gmail mailbox (collaborator) ---- *)
\* ids of the history records after `from`, in change-log order
RECURSIVE Ascending(_)
Ascending(S) ==
    IF S = {} THEN << >>
    ELSE LET m == CHOOSE x \in S : \A y \in S : x <= y
         IN  <<m>> \o Ascending(S \ {m})

Take(s, n) == SubSeq(s, 1, IF Len(s) < n THEN Len(s) ELSE n)

Range(s) == {s[i] : i \in 1 .. Len(s)}

\* variant: the record at startHistoryId itself is listed again
HistoryPageFromStart(addedSet, startHistoryId, token) ==
    LET rest == Ascending({m \in addedSet :
                   IF token = NoToken THEN m >= startHistoryId ELSE m > token})
        page == Take(rest, PageSize)
    IN  [history       |-> page,
         nextPageToken |-> IF Len(rest) > PageSize THEN page[Len(page)]
                           ELSE NoToken]

\* variant: no continuation token is ever returned
HistoryPageNoToken(addedSet, startHistoryId, token) ==
    LET from == IF token = NoToken THEN startHistoryId ELSE token
        rest == Ascending({m \in addedSet : m > from})
    IN  [history |-> Take(rest, PageSize), nextPageToken |-> NoToken]

\* One page of Gmail.Users.History.list: the records after startHistoryId
\* (after the previous page when a pageToken is given), PageSize at a time.
HistoryPage(addedSet, startHistoryId, token) ==
    LET from == IF token = NoToken THEN startHistoryId ELSE token
        rest == Ascending({m \in addedSet : m > from})
        page == Take(rest, PageSize)
    IN  [history       |-> page,
         nextPageToken |-> IF Len(rest) > PageSize THEN page[Len(page)]
                           ELSE NoToken]

\* variant: the reported history id is never taken over
NewCursorKeepsStart(last, reported) == last

\* if (response.historyId) lastHistoryId = response.historyId;
NewCursor(last, reported) == IF ~Falsy(reported) THEN reported ELSE last

\* variant: Gmail.Users.Messages.get without the try/catch
ResolveAllOrThrow(page, gone) ==
    [emails |-> SelectSeq(page, LAMBDA m : m \notin gone),
     threw  |-> Range(page) \cap gone # {}]

\* the try/catch around Gmail.Users.Messages.get: a failed lookup is logged
\* and skipped
Resolve(page, gone) ==
    [emails |-> SelectSeq(page, LAMBDA m : m \notin gone),
     threw  |-> FALSE]

(* ---- the sheet (collaborator) ---- *)
\* sheet.getLastRow(): the header rows and the data rows
GetLastRow(rows) == HeaderRows + Len(rows)

\* variant: the block begins at lastRow
SetValuesAtLastRow(rows, lastRow, values) ==
    LET at == lastRow - HeaderRows
    IN  SubSeq(rows, 1, at - 1) \o values
          \o SubSeq(rows, at + Len(values), Len(rows))

\* getRange(lastRow + 1, col, n, 3).setValues(values): the n rows from
\* lastRow + 1 on are overwritten, the sheet growing as far as needed.
SetValues(rows, lastRow, values) ==
    LET at == lastRow + 1 - HeaderRows
    IN  SubSeq(rows, 1, at - 1) \o values
          \o SubSeq(rows, at + Len(values), Len(rows))

Count(s, x) == Cardinality({i \in 1 .. Len(s) : s[i] = x})

Max(S) == CHOOSE x \in S : \A y \in S : y <= x

(* ---- SheetLayout ---- *)
\* a column name is a sequence of character codes, of upper-case and
\* lower-case letters
UpperCase == 65 .. 90
LowerCase == 97 .. 122

Cols(n) ==
    UNION {[1 .. k -> UpperCase \cup LowerCase] : k \in 1 .. n}

\* SHEETCONFIG[SHEETNAME_EMAILS].layout.variableNames, the columns only
SheetConfig ==
    [emailDate |-> <<65>>, emailFrom |-> <<66>>, emailSubject |-> <<67>>]

\* the configurations a SheetLayout is made for: the one of the 'Emails'
\* sheet, and one variable in any column
Configs(n) ==
    {SheetConfig} \cup {[v \in {"emailDate"} |-> col] : col \in Cols(n)}

\* constructor: this._dataMap = null
NewSheetLayout(config) ==
    [config |-> config, cached |-> FALSE,
     dataMap |-> [v \in DOMAIN config |-> 0]]

\* variant: the column is read as it is written
KeepCase(c) == c

\* String.prototype.toUpperCase, one character
ToUpperCase(c) == IF c \in LowerCase THEN c - 32 ELSE c

\* .split('').reduce((total, char) => total * 26 + (char.charCodeAt(0) - 64), 0)
RECURSIVE Reduce(_, _)
Reduce(chars, total) ==
    IF chars = << >> THEN total
    ELSE Reduce(Tail(chars), total * 26 + (ToUpperCase(Head(chars)) - 64))

ColumnIndex(col) == Reduce(col, 0)

\* getDataMap(): the memoized map, computed on the first call
GetDataMapOf(lay) ==
    IF lay.cached THEN lay
    ELSE [lay EXCEPT !.cached = TRUE,
                     !.dataMap = [v \in DOMAIN lay.config |->
                                    ColumnIndex(lay.config[v])]]

(* ---- state ---- *)
(* ---- Cloud Run proxy (pushProxy) ---- *)
\* The text a Pub/Sub message carries: not JSON at all, the JSON text null,
\* or the JSON text of another value, described as the POST data are (a
\* value that is not an object has no properties).
NoPayload == Payload(FALSE, {}, "", EmptyId)

Text(kind, p) == [kind |-> kind, p |-> p]

Garbage == Text("garbage", NoPayload)

Texts(top) ==
    {Garbage, Text("null", NoPayload)}
    \cup {Text("value", p) : p \in Payloads(top)}

\* pubsubMessage.message.data: undefined, a string that is the base64 of a
\* text, or a string that is not base64
MessageData(kind, text) == [kind |-> kind, text |-> text]

\* cloudEvent: with or without data, with or without data.message
CloudEvent(hasData, hasMessage, d) ==
    [hasData |-> hasData, hasMessage |-> hasMessage, data |-> d]

Events(top) ==
    {CloudEvent(FALSE, FALSE, MessageData("undefined", Garbage)),
     CloudEvent(TRUE, FALSE, MessageData("undefined", Garbage)),
     CloudEvent(TRUE, TRUE, MessageData("undefined", Garbage)),
     CloudEvent(TRUE, TRUE, MessageData("notBase64", Garbage))}
    \cup {CloudEvent(TRUE, TRUE, MessageData("base64", t)) : t \in Texts(top)}

\* !pubsubMessage || !pubsubMessage.message
NoMessage(ev) == ~ev.hasData \/ ~ev.hasMessage

\* Buffer.from(undefined, 'base64') throws a TypeError
DecodeThrows(d) == d.kind = "undefined"

\* Buffer.from(data, 'base64').toString(): characters that are not base64
\* are skipped, and what is left is no JSON text
Base64Decode(d) == IF d.kind = "base64" THEN d.text ELSE Garbage

\* JSON.parse(messageData) throws
ParseThrows(text) == text.kind = "garbage"

\* const { emailAddress, historyId } = null throws a TypeError
DestructureThrows(text) == text.kind = "null"

\* variant: !emailAddress alone
NotificationCompleteAddressOnly(p) == ~(p.emailAddress = "")

\* !(!emailAddress || !historyId)
NotificationComplete(p) == ~(p.emailAddress = "" \/ Falsy(p.historyId))

\* the body of axios.post: GAS_API_KEY, the task, and the two values
ForwardBody(p) ==
    Body(ApiKey, "processNewEmails",
         Payload(TRUE, RequiredFields, p.emailAddress, p.historyId))

\* How the POST ends: no connection, a status that is not 2xx, a 2xx reply
\* whose body is null, or a 2xx reply whose body is {success, message}.
Reply(kind, success, message) ==
    [kind |-> kind, success |-> success, message |-> message]

NoReply == Reply("none", FALSE, "")

Replies ==
    {Reply("networkError", FALSE, ""), Reply("badStatus", FALSE, ""),
     Reply("nullBody", FALSE, "")}
    \cup {Reply("ok", ok, m) : ok \in BOOLEAN,
                               m \in Messages \cup {MsgNoHistory}}

\* await axios.post(...) rejects: no connection, or a status outside 2xx
AxiosThrows(reply) == reply.kind \in {"networkError", "badStatus"}

\* response.data.success with response.data null throws a TypeError
LogThrows(reply) == reply.kind = "nullBody"

\* variant: the error is thrown again
HandlerOutcomeRethrows(threw) == IF threw THEN "threw" ELSE "returned"

\* try { ... } catch (error) { console.error(...) }: whatever is thrown
\* inside the handler is logged, and the handler completes
HandlerOutcome(threw) == "returned"

IdleProxy ==
    [pc |-> "idle", event |-> CloudEvent(FALSE, FALSE,
                                         MessageData("undefined", Garbage)),
     text |-> Garbage, posts |-> << >>, reply |-> NoReply,
     caught |-> FALSE, status |-> "running"]

\* the handler ends, by a return or in its catch
ProxyEnd(px, threw) ==
    [px EXCEPT !.pc = "done", !.caught = threw,
               !.status = HandlerOutcome(threw)]

VARIABLES
    mailboxId,      \* Gmail: the mailbox's current history id
    added,          \* Gmail: history ids of the messageAdded records; the
                    \*   record's id is also the id of its message
    deleted,        \* Gmail: messages that no longer exist
    lastHistoryId,  \* SCRIPT_PROPS 'lastHistoryId' (NoCursor when absent)
    sheet,          \* data rows of the sheet SHEETNAME_EMAILS, one message
                    \*   id per row
    run,            \* per relay run: position and locals of processNewEmails
    obs,            \* per relay run: history of its I/O calls
    faulted,        \* some call of some run has failed or timed out
    origin,         \* the notification cursor the relay started from: the
                    \*   historyId of the last run that found no cursor stored
    IsWatch,        \* SCRIPT_PROPS 'IsWatch'
    watch,          \* Gmail: expiration of the registered watch (NoWatch
                    \*   when none is registered)
    clock,          \* time: the invocations of initWatch and stopWatch
                    \*   begun so far
    triggers,       \* ScriptApp: the project's triggers
    call,           \* per caller: position and locals of initWatch/stopWatch
    layout,         \* a SheetLayout: its configuration and its _dataMap
    proxy           \* Cloud Run: position and locals of pushProxy, and the
                    \*   POSTs it has issued for the event in hand

relayVars == <<mailboxId, added, deleted, sheet, run, obs, faulted, origin>>

lifeVars == <<IsWatch, watch, clock, triggers, call>>

vars == <<mailboxId, added, deleted, lastHistoryId, sheet, run, obs, faulted,
          origin, IsWatch, watch, clock, triggers, call, layout, proxy>>

Running == [status |-> "running", success |-> FALSE, message |-> "",
            textOutput |-> FALSE]

\* return {success, message}
Returned(success, message) ==
    [status |-> "returned", success |-> success, message |-> message,
     textOutput |-> FALSE]

\* return ContentService.createTextOutput(JSON.stringify({success, message}))
ReturnedTextOutput(success, message) ==
    [status |-> "returned", success |-> success, message |-> message,
     textOutput |-> TRUE]

\* an exception leaves processNewEmails
Threw == [status |-> "threw", success |-> FALSE, message |-> "",
          textOutput |-> FALSE]

\* the runtime ends the execution
TimedOut == [status |-> "timeout", success |-> FALSE, message |-> "",
             textOutput |-> FALSE]

IdleRun ==
    [pc |-> "idle", data |-> Payload(FALSE, {}, "", EmptyId),
     historyId |-> EmptyId, last |-> EmptyId, pageToken |-> NoToken,
     emails |-> << >>, lastRow |-> 0, result |-> Running]

NoObs ==
    [before |-> NoCursor, reads |-> 0, lists |-> 0, listed |-> << >>,
     skipped |-> {}, reported |-> {}, listFailed |-> FALSE,
     cursorWrites |-> << >>,
     sheetWrites |-> 0, tried |-> {}, chat |-> {}, apiKey |-> "",
     handled |-> FALSE]

(* ---- initWatch, stopWatch: values ---- *)
\* who runs initWatch or stopWatch: the user (menu, button or editor) and
\* the time-based trigger
Callers == {"user", "timer"}

\* the locals of one invocation: e.triggerUid, response.expiration, and the
\* triggers that existed when it began
IdleCall ==
    [op |-> "none", pc |-> "idle", uid |-> NoUid, expiration |-> NoWatch,
     before |-> {}, status |-> "running"]

\* Gmail.Users.watch: a watch registered in the invocation that began at
\* time k expires after that hour
Expiration(k) == OneHour + k

\* variant: the renewal is scheduled at the expiration itself
ReinitAtExpiration(expiration) == expiration

\* const reinitAt = expiration - 60 * 60 * 1000
ReinitAt(expiration) == expiration - OneHour

Uids(trs) == {t.uid : t \in trs}

\* the unique id ScriptApp gives a new trigger: one that no trigger has and
\* no invocation holds
NewUid(trs, calls) ==
    CHOOSE u \in 1 .. (MaxTriggers + Cardinality(Callers) + 1) :
        /\ u \notin Uids(trs) \cup {calls[c].uid : c \in Callers}
        /\ \A v \in 1 .. (u - 1) :
              v \in Uids(trs) \cup {calls[c].uid : c \in Callers}

\* ScriptApp.newTrigger(functionName).timeBased().at(new Date(T)).create()
ScheduleAnotherRunAt(trs, calls, T) ==
    trs \cup {[uid |-> NewUid(trs, calls), at |-> T, fired |-> FALSE]}

\* the loop over getProjectTriggers() that deletes the trigger with the uid
DeleteTriggerByUid(trs, uid) == {t \in trs : t.uid # uid}

\* the time-based triggers of initWatch there can be
Triggers ==
    [uid : 1 .. (MaxTriggers + Cardinality(Callers) + 1), at : 1 .. MaxCalls,
     fired : BOOLEAN]

\* a trigger that has not fired yet
Pending(trs) == {t \in trs : ~t.fired}

InitState ==
    /\ mailboxId = 1
    /\ added = {}
    /\ deleted = {}
    /\ lastHistoryId = NoCursor
    /\ sheet = << >>
    /\ run = [r \in Runs |-> IdleRun]
    /\ obs = [r \in Runs |-> NoObs]
    /\ faulted = FALSE
    /\ origin = NoCursor
    /\ IsWatch = NoProperty
    /\ watch = NoWatch
    /\ clock = 0
    /\ triggers = {}
    /\ call = [c \in Callers |-> IdleCall]

Init == InitState /\ layout = NewSheetLayout(SheetConfig) /\ proxy = IdleProxy

Active(r) == run[r].pc \notin {"idle", "done"}

\* variant: the outcome is set and the invocation does not end
FinishStaysActive(rn, result) == [rn EXCEPT !.result = result]

\* the invocation ends: its locals are gone, its outcome stays
Finish(rn, result) ==
    [IdleRun EXCEPT !.pc = "done", !.data = rn.data, !.result = result]

\* variant: the catch leaves the loop instead of the function
ListErrorBreaksLoop(rn) == [rn EXCEPT !.pc = "setprop"]

\* catch (err) { appendToLogFile(...); return null; } in pullEmailsSince and
\* if (!emails) return {success: false, message: MESSAGES.noHistory}
ListError(rn) == Finish(rn, Returned(FALSE, MsgNoHistory))

(* ---- Gmail ---- *)
\* a new message arrives: a messageAdded history record
Arrive ==
    /\ mailboxId < MaxHistoryId
    /\ mailboxId' = mailboxId + 1
    /\ added' = added \cup {mailboxId + 1}
    /\ UNCHANGED <<deleted, lastHistoryId, sheet, run, obs, faulted, origin>>
    /\ UNCHANGED lifeVars
    /\ UNCHANGED <<layout, proxy>>

\* any other mailbox change: a history record that adds no message
Touch ==
    /\ mailboxId < MaxHistoryId
    /\ mailboxId' = mailboxId + 1
    /\ UNCHANGED <<added, deleted, lastHistoryId, sheet, run, obs, faulted,
                   origin>>
    /\ UNCHANGED lifeVars
    /\ UNCHANGED <<layout, proxy>>

\* a message is deleted for good; its history record stays
Delete(m) ==
    /\ m \in added \ deleted
    /\ deleted' = deleted \cup {m}
    /\ UNCHANGED <<mailboxId, added, lastHistoryId, sheet, run, obs, faulted,
                   origin>>
    /\ UNCHANGED lifeVars
    /\ UNCHANGED <<layout, proxy>>

(* ---- doPost ---- *)
\* A request takes the first free slot.  doPost answers by itself a request
\* with another key or an unknown task.
Refuse(r, body) ==
    /\ run[r].pc = "idle"
    /\ \A q \in Runs : q < r => run[q].pc # "idle"
    /\ body \in Bodies(mailboxId)
    /\ DoPostRoute(body) \notin ApiHandlers
    /\ run' = [run EXCEPT ![r] =
                 [Finish(@, Returned(FALSE, DoPostRoute(body)))
                    EXCEPT !.data = body.data]]
    /\ obs' = [obs EXCEPT ![r].before = lastHistoryId,
                          ![r].apiKey = body.apiKey]
    /\ UNCHANGED <<mailboxId, added, deleted, lastHistoryId, sheet, faulted,
                   origin>>
    /\ UNCHANGED lifeVars
    /\ UNCHANGED <<layout, proxy>>

(* ---- processNewEmails ---- *)
\* doPost calls the handler with body.data.
Begin(r, body) ==
    /\ run[r].pc = "idle"
    /\ \A q \in Runs : q < r => run[q].pc # "idle"
    /\ body \in Bodies(mailboxId)
    /\ DoPostRoute(body) = "processNewEmails"
    /\ LET d == body.data
       IN
       IF ~IsValidData(d)
       THEN /\ run' = [run EXCEPT ![r] =
                         [Finish(@, ReturnedTextOutput(FALSE, MsgInvalidData))
                            EXCEPT !.data = d]]
            /\ obs' = [obs EXCEPT ![r].before = lastHistoryId,
                                  ![r].apiKey = body.apiKey,
                                  ![r].handled = TRUE]
            /\ UNCHANGED origin
       ELSE /\ run' = [run EXCEPT ![r] =
                         [@ EXCEPT !.pc = "list", !.data = d,
                             !.historyId = EffectiveCursor(lastHistoryId, d),
                             !.last = EffectiveCursor(lastHistoryId, d)]]
            /\ obs' = [obs EXCEPT ![r].before = lastHistoryId,
                                  ![r].apiKey = body.apiKey,
                                  ![r].handled = TRUE,
                                  ![r].reads = @ + 1]
            /\ origin' = IF Falsy(lastHistoryId) THEN d.historyId ELSE origin
    /\ UNCHANGED <<mailboxId, added, deleted, lastHistoryId, sheet, faulted>>
    /\ UNCHANGED lifeVars
    /\ UNCHANGED <<layout, proxy>>

\* One turn of the do-while loop of pullEmailsSince.  History.list throws
\* whenever it likes, and always without a startHistoryId; the response
\* carries the mailbox's current history id, which Gmail may leave out of
\* a response without records.
ListPage(r) ==
    /\ run[r].pc = "list"
    /\ \E fail, report \in BOOLEAN :
         LET resp == HistoryPage(added, run[r].historyId, run[r].pageToken)
             got  == Resolve(resp.history, deleted)
             seen == IF report THEN mailboxId ELSE EmptyId
         IN  /\ Falsy(run[r].historyId) => fail
             /\ fail => ~report
             /\ (~fail /\ resp.history # << >>) => report
             /\ obs' = [obs EXCEPT ![r].lists = @ + 1,
                          ![r].listed = IF fail THEN @ ELSE @ \o resp.history,
                          ![r].skipped = IF fail THEN @
                                         ELSE @ \cup (Range(resp.history) \cap deleted),
                          ![r].reported = IF report THEN @ \cup {seen} ELSE @,
                          ![r].listFailed = fail]
             /\ IF fail
                THEN /\ run' = [run EXCEPT ![r] = ListError(@)]
                     /\ faulted' = TRUE
                ELSE IF got.threw
                THEN /\ run' = [run EXCEPT ![r] = Finish(@, Threw)]
                     /\ faulted' = TRUE
                ELSE /\ run' = [run EXCEPT ![r] =
                                  [@ EXCEPT !.emails = @ \o got.emails,
                                      !.last = NewCursor(@, seen),
                                      !.pageToken = resp.nextPageToken,
                                      !.pc = IF resp.nextPageToken # NoToken
                                             THEN "list" ELSE "setprop"]]
                     /\ UNCHANGED faulted
    /\ UNCHANGED <<mailboxId, added, deleted, lastHistoryId, sheet, origin>>
    /\ UNCHANGED lifeVars
    /\ UNCHANGED <<layout, proxy>>

\* variant: no setProperty when the fetch returned nothing
SetCursorUnlessEmpty(r) ==
    /\ run[r].pc = "setprop"
    /\ IF run[r].emails = << >>
       THEN /\ run' = [run EXCEPT ![r] = Finish(@, Returned(TRUE, MsgNoProcess))]
            /\ UNCHANGED <<lastHistoryId, obs>>
       ELSE /\ lastHistoryId' = run[r].last
            /\ obs' = [obs EXCEPT ![r].cursorWrites = Append(@, run[r].last)]
            /\ run' = [run EXCEPT ![r].pc = "lastrow"]
    /\ UNCHANGED <<mailboxId, added, deleted, sheet, faulted, origin>>
    /\ UNCHANGED lifeVars
    /\ UNCHANGED <<layout, proxy>>

\* SCRIPT_PROPS.setProperty('lastHistoryId', lastHistoryId) at the end of
\* pullEmailsSince, then the tests of `emails` in processNewEmails.
SetCursor(r) ==
    /\ run[r].pc = "setprop"
    /\ lastHistoryId' = run[r].last
    /\ obs' = [obs EXCEPT ![r].cursorWrites = Append(@, run[r].last)]
    /\ run' = [run EXCEPT ![r] =
                 IF run[r].emails = << >>
                 THEN Finish(@, Returned(TRUE, MsgNoProcess))
                 ELSE [@ EXCEPT !.pc = "lastrow"]]
    /\ UNCHANGED <<mailboxId, added, deleted, sheet, faulted, origin>>
    /\ UNCHANGED lifeVars
    /\ UNCHANGED <<layout, proxy>>

\* const lastRow = sheet.getLastRow()
ReadLastRow(r) ==
    /\ run[r].pc = "lastrow"
    /\ run' = [run EXCEPT ![r] =
                 [@ EXCEPT !.lastRow = GetLastRow(sheet), !.pc = "write"]]
    /\ UNCHANGED <<mailboxId, added, deleted, lastHistoryId, sheet, obs, faulted,
                   origin>>
    /\ UNCHANGED lifeVars
    /\ UNCHANGED <<layout, proxy>>

\* sheet.getRange(lastRow + 1, ...).setValues(...): it writes or it throws
WriteSheet(r) ==
    /\ run[r].pc = "write"
    /\ \E ok \in BOOLEAN :
         IF ok
         THEN /\ sheet' = SetValues(sheet, run[r].lastRow, run[r].emails)
              /\ obs' = [obs EXCEPT ![r].sheetWrites = @ + 1]
              /\ run' = [run EXCEPT ![r].pc = "telegram"]
              /\ UNCHANGED faulted
         ELSE /\ run' = [run EXCEPT ![r] = Finish(@, Threw)]
              /\ faulted' = TRUE
              /\ UNCHANGED <<sheet, obs>>
    /\ UNCHANGED <<mailboxId, added, deleted, lastHistoryId, origin>>
    /\ UNCHANGED lifeVars
    /\ UNCHANGED <<layout, proxy>>

\* getSecret twice, then sendTelegramMessage: the message is delivered, or
\* Telegram answers with another code than 200 (logged), or getSecret or
\* UrlFetchApp.fetch throws.
Telegram(r) ==
    /\ run[r].pc = "telegram"
    /\ \E outcome \in {"sent", "rejected", "threw"} :
         /\ run' = [run EXCEPT ![r] =
                      IF outcome = "threw" THEN Finish(@, Threw)
                      ELSE [@ EXCEPT !.pc = "slack"]]
         /\ obs' = [obs EXCEPT ![r].tried = @ \cup {"telegram"},
                      ![r].chat =
                        IF outcome = "sent" THEN @ \cup {"telegram"} ELSE @]
         /\ faulted' = (faulted \/ outcome = "threw")
    /\ UNCHANGED <<mailboxId, added, deleted, lastHistoryId, sheet, origin>>
    /\ UNCHANGED lifeVars
    /\ UNCHANGED <<layout, proxy>>

\* getSecret, then sendSlackMessage, then return the success result
Slack(r) ==
    /\ run[r].pc = "slack"
    /\ \E outcome \in {"sent", "rejected", "threw"} :
         /\ run' = [run EXCEPT ![r] =
                      IF outcome = "threw" THEN Finish(@, Threw)
                      ELSE Finish(@, Returned(TRUE, MsgProcessSuccess))]
         /\ obs' = [obs EXCEPT ![r].tried = @ \cup {"slack"},
                      ![r].chat =
                        IF outcome = "sent" THEN @ \cup {"slack"} ELSE @]
         /\ faulted' = (faulted \/ outcome = "threw")
    /\ UNCHANGED <<mailboxId, added, deleted, lastHistoryId, sheet, origin>>
    /\ UNCHANGED lifeVars
    /\ UNCHANGED <<layout, proxy>>

\* the Apps Script runtime cuts the execution off at its time limit
Timeout(r) ==
    /\ Active(r)
    /\ run' = [run EXCEPT ![r] = Finish(@, TimedOut)]
    /\ faulted' = TRUE
    /\ UNCHANGED <<mailboxId, added, deleted, lastHistoryId, sheet, obs, origin>>
    /\ UNCHANGED lifeVars
    /\ UNCHANGED <<layout, proxy>>

\* the caller has its response (or has seen the execution fail): the slot
\* is free for the next run
Return(r) ==
    /\ run[r].pc = "done"
    /\ run' = [run EXCEPT ![r] = IdleRun]
    /\ obs' = [obs EXCEPT ![r] = NoObs]
    /\ UNCHANGED <<mailboxId, added, deleted, lastHistoryId, sheet, faulted,
                   origin>>
    /\ UNCHANGED lifeVars
    /\ UNCHANGED <<layout, proxy>>

(* ---- initWatch ---- *)
CallDone(cl, status) == [cl EXCEPT !.pc = "done", !.status = status]

\* the user runs initWatch from the menu, a button or the editor: no event
StartManual ==
    /\ call["user"].pc = "idle"
    /\ clock < MaxCalls
    /\ clock' = clock + 1
    /\ call' = [call EXCEPT !["user"] =
                  [IdleCall EXCEPT !.op = "initWatch", !.pc = "watch",
                                   !.before = triggers]]
    /\ UNCHANGED <<IsWatch, watch, triggers>>
    /\ UNCHANGED <<relayVars, lastHistoryId>>
    /\ UNCHANGED <<layout, proxy>>

\* a time-based trigger fires, once: it runs initWatch with its uid in
\* e.triggerUid, and stays in the project until it is deleted
Fire(t) ==
    /\ t \in Pending(triggers)
    /\ call["timer"].pc = "idle"
    /\ clock < MaxCalls
    /\ clock' = clock + 1
    /\ triggers' = (triggers \ {t}) \cup {[t EXCEPT !.fired = TRUE]}
    /\ call' = [call EXCEPT !["timer"] =
                  [IdleCall EXCEPT !.op = "initWatch", !.pc = "watch",
                                   !.uid = t.uid, !.before = triggers]]
    /\ UNCHANGED <<IsWatch, watch>>
    /\ UNCHANGED <<relayVars, lastHistoryId>>
    /\ UNCHANGED <<layout, proxy>>

\* Gmail.Users.watch(resource, 'me'): registers the watch (replacing the
\* one before) and answers with its expiration, or throws
Watch(c) ==
    /\ call[c].pc = "watch"
    /\ \E ok \in BOOLEAN :
         IF ok
         THEN /\ watch' = Expiration(clock)
              /\ call' = [call EXCEPT ![c].pc = "schedule",
                             ![c].expiration = Expiration(clock)]
         ELSE /\ call' = [call EXCEPT ![c] = CallDone(@, "threw")]
              /\ UNCHANGED watch
    /\ UNCHANGED <<IsWatch, clock, triggers>>
    /\ UNCHANGED <<relayVars, lastHistoryId>>
    /\ UNCHANGED <<layout, proxy>>

\* scheduleAnotherRunAt('initWatch', reinitAt); create() throws when the
\* script has as many triggers as it may have
Schedule(c) ==
    /\ call[c].pc = "schedule"
    /\ IF Cardinality(triggers) < MaxTriggers
       THEN /\ triggers' = ScheduleAnotherRunAt(triggers, call,
                                                ReinitAt(call[c].expiration))
            /\ call' = [call EXCEPT ![c].pc = "delete"]
       ELSE /\ call' = [call EXCEPT ![c] = CallDone(@, "threw")]
            /\ UNCHANGED triggers
    /\ UNCHANGED <<IsWatch, watch, clock>>
    /\ UNCHANGED <<relayVars, lastHistoryId>>
    /\ UNCHANGED <<layout, proxy>>

\* variant: deleteTriggerByUid(e.triggerUid) without the test of e, which
\* throws when there is no event
DeleteFiredUnguarded(c) ==
    /\ call[c].pc = "delete"
    /\ IF call[c].uid # NoUid
       THEN /\ triggers' = DeleteTriggerByUid(triggers, call[c].uid)
            /\ call' = [call EXCEPT ![c].pc = "flag"]
       ELSE /\ call' = [call EXCEPT ![c] = CallDone(@, "threw")]
            /\ UNCHANGED triggers
    /\ UNCHANGED <<IsWatch, watch, clock>>
    /\ UNCHANGED <<relayVars, lastHistoryId>>
    /\ UNCHANGED <<layout, proxy>>

\* if (e && e.triggerUid) deleteTriggerByUid(e.triggerUid)
DeleteFired(c) ==
    /\ call[c].pc = "delete"
    /\ triggers' = IF call[c].uid # NoUid
                   THEN DeleteTriggerByUid(triggers, call[c].uid)
                   ELSE triggers
    /\ call' = [call EXCEPT ![c].pc = "flag"]
    /\ UNCHANGED <<IsWatch, watch, clock>>
    /\ UNCHANGED <<relayVars, lastHistoryId>>
    /\ UNCHANGED <<layout, proxy>>

\* variant: the cursor is deleted when the listening begins
SetWatchingResetsCursor(c) ==
    /\ call[c].pc = "flag"
    /\ IsWatch' = "true"
    /\ lastHistoryId' = NoCursor
    /\ call' = [call EXCEPT ![c] = CallDone(@, "returned")]
    /\ UNCHANGED <<watch, clock, triggers>>
    /\ UNCHANGED relayVars
    /\ UNCHANGED <<layout, proxy>>

\* SCRIPT_PROPS.setProperty('IsWatch', 'true'), then the menu
SetWatching(c) ==
    /\ call[c].pc = "flag"
    /\ IsWatch' = "true"
    /\ call' = [call EXCEPT ![c] = CallDone(@, "returned")]
    /\ UNCHANGED <<watch, clock, triggers>>
    /\ UNCHANGED <<relayVars, lastHistoryId>>
    /\ UNCHANGED <<layout, proxy>>

(* ---- stopWatch ---- *)
\* the user runs stopWatch
StopManual ==
    /\ call["user"].pc = "idle"
    /\ clock < MaxCalls
    /\ clock' = clock + 1
    /\ call' = [call EXCEPT !["user"] =
                  [IdleCall EXCEPT !.op = "stopWatch", !.pc = "stop",
                                   !.before = triggers]]
    /\ UNCHANGED <<IsWatch, watch, triggers>>
    /\ UNCHANGED <<relayVars, lastHistoryId>>
    /\ UNCHANGED <<layout, proxy>>

\* Gmail.Users.stop('me'), or it throws
StopGmail(c) ==
    /\ call[c].pc = "stop"
    /\ \E ok \in BOOLEAN :
         IF ok
         THEN /\ watch' = NoWatch
              /\ call' = [call EXCEPT ![c].pc = "untrigger"]
         ELSE /\ call' = [call EXCEPT ![c] = CallDone(@, "threw")]
              /\ UNCHANGED watch
    /\ UNCHANGED <<IsWatch, clock, triggers>>
    /\ UNCHANGED <<relayVars, lastHistoryId>>
    /\ UNCHANGED <<layout, proxy>>

\* getProjectTriggers().find(t => t.getHandlerFunction() === 'initWatch'),
\* then deleteTrigger: the first trigger of initWatch in the order the
\* project lists them, which may be any of them; only that one is deleted
DeleteOne(c) ==
    /\ call[c].pc = "untrigger"
    /\ IF triggers = {}
       THEN UNCHANGED triggers
       ELSE \E t \in triggers : triggers' = triggers \ {t}
    /\ call' = [call EXCEPT ![c].pc = "unflag"]
    /\ UNCHANGED <<IsWatch, watch, clock>>
    /\ UNCHANGED <<relayVars, lastHistoryId>>
    /\ UNCHANGED <<layout, proxy>>

\* SCRIPT_PROPS.setProperty('IsWatch', 'false')
ClearWatching(c) ==
    /\ call[c].pc = "unflag"
    /\ IsWatch' = "false"
    /\ call' = [call EXCEPT ![c].pc = "delcursor"]
    /\ UNCHANGED <<watch, clock, triggers>>
    /\ UNCHANGED <<relayVars, lastHistoryId>>
    /\ UNCHANGED <<layout, proxy>>

\* SCRIPT_PROPS.deleteProperty('lastHistoryId'), then the menu
DeleteCursor(c) ==
    /\ call[c].pc = "delcursor"
    /\ lastHistoryId' = NoCursor
    /\ call' = [call EXCEPT ![c] = CallDone(@, "returned")]
    /\ UNCHANGED <<IsWatch, watch, clock, triggers>>
    /\ UNCHANGED relayVars
    /\ UNCHANGED <<layout, proxy>>

\* the invocation is over
CallReturn(c) ==
    /\ call[c].pc = "done"
    /\ call' = [call EXCEPT ![c] = IdleCall]
    /\ UNCHANGED <<IsWatch, watch, clock, triggers>>
    /\ UNCHANGED <<relayVars, lastHistoryId>>
    /\ UNCHANGED <<layout, proxy>>

(* ---- specifications ---- *)
Next ==
    \/ Arrive
    \/ Touch
    \/ \E m \in Ids : Delete(m)
    \/ \E r \in Runs : \E body \in Bodies(MaxHistoryId) : Refuse(r, body)
    \/ \E r \in Runs : \E body \in Bodies(MaxHistoryId) : Begin(r, body)
    \/ \E r \in Runs : ListPage(r)
    \/ \E r \in Runs : SetCursor(r)
    \/ \E r \in Runs : ReadLastRow(r)
    \/ \E r \in Runs : WriteSheet(r)
    \/ \E r \in Runs : Telegram(r)
    \/ \E r \in Runs : Slack(r)
    \/ \E r \in Runs : Timeout(r)

\* MaxRuns web-app executions, which may overlap
Spec == Init /\ [][Next]_vars

\* any number of relay runs, one at a time: a run starts when the one before
\* has returned
Quiet == \A r \in Runs : run[r].pc = "idle"

RefuseAlone(r, body) == Quiet /\ Refuse(r, body)

BeginAlone(r, body) == Quiet /\ Begin(r, body)

NextSeq ==
    \/ Arrive
    \/ Touch
    \/ \E m \in Ids : Delete(m)
    \/ \E r \in Runs : \E body \in Bodies(MaxHistoryId) : RefuseAlone(r, body)
    \/ \E r \in Runs : \E body \in Bodies(MaxHistoryId) : BeginAlone(r, body)
    \/ \E r \in Runs : ListPage(r)
    \/ \E r \in Runs : SetCursor(r)
    \/ \E r \in Runs : ReadLastRow(r)
    \/ \E r \in Runs : WriteSheet(r)
    \/ \E r \in Runs : Telegram(r)
    \/ \E r \in Runs : Slack(r)
    \/ \E r \in Runs : Timeout(r)
    \/ \E r \in Runs : Return(r)

SpecSeq == Init /\ [][NextSeq]_vars

\* the next call of a run that is under way returns or fails
Step(r) ==
    \/ ListPage(r)
    \/ SetCursor(r)
    \/ ReadLastRow(r)
    \/ WriteSheet(r)
    \/ Telegram(r)
    \/ Slack(r)

\* the runs one at a time, every call of a run returning or failing in the end
SpecSeqFair == SpecSeq /\ \A r \in Runs : WF_vars(Step(r))

\* relay runs and invocations of initWatch and stopWatch, by the user and
\* by the triggers, one at a time: nothing begins while another is under way
CallQuiet == \A c \in Callers : call[c].pc = "idle"

AllQuiet == CallQuiet /\ Quiet

BeginQuiet(r, body) == AllQuiet /\ Begin(r, body)

StartAlone == AllQuiet /\ StartManual

StopAlone == AllQuiet /\ StopManual

FireAlone(t) == AllQuiet /\ Fire(t)

NextWatch ==
    \/ Arrive
    \/ \E r \in Runs : \E body \in Bodies(MaxHistoryId) : BeginQuiet(r, body)
    \/ \E r \in Runs : ListPage(r)
    \/ \E r \in Runs : SetCursor(r)
    \/ \E r \in Runs : ReadLastRow(r)
    \/ \E r \in Runs : WriteSheet(r)
    \/ \E r \in Runs : Telegram(r)
    \/ \E r \in Runs : Slack(r)
    \/ \E r \in Runs : Return(r)
    \/ StartAlone
    \/ StopAlone
    \/ \E t \in Triggers : FireAlone(t)
    \/ \E c \in Callers : Watch(c)
    \/ \E c \in Callers : Schedule(c)
    \/ \E c \in Callers : DeleteFired(c)
    \/ \E c \in Callers : SetWatching(c)
    \/ \E c \in Callers : StopGmail(c)
    \/ \E c \in Callers : DeleteOne(c)
    \/ \E c \in Callers : ClearWatching(c)
    \/ \E c \in Callers : DeleteCursor(c)
    \/ \E c \in Callers : CallReturn(c)

SpecWatch == Init /\ [][NextWatch]_vars

\* initWatch and stopWatch alone, one invocation at a time: no notification
\* is delivered
NextLife ==
    \/ StartAlone
    \/ StopAlone
    \/ \E t \in Triggers : FireAlone(t)
    \/ \E c \in Callers : Watch(c)
    \/ \E c \in Callers : Schedule(c)
    \/ \E c \in Callers : DeleteFired(c)
    \/ \E c \in Callers : SetWatching(c)
    \/ \E c \in Callers : StopGmail(c)
    \/ \E c \in Callers : DeleteOne(c)
    \/ \E c \in Callers : ClearWatching(c)
    \/ \E c \in Callers : DeleteCursor(c)
    \/ \E c \in Callers : CallReturn(c)

SpecLife == Init /\ [][NextLife]_vars

\* as NextWatch, with every notification delivered as Gmail emits it: it
\* carries the address and the mailbox's history id of that moment
BeginFresh(r, body) ==
    /\ body.data.emailAddress # ""
    /\ body.data.historyId = mailboxId
    /\ BeginQuiet(r, body)

NextFresh ==
    \/ Arrive
    \/ \E r \in Runs : \E body \in Bodies(MaxHistoryId) : BeginFresh(r, body)
    \/ \E r \in Runs : ListPage(r)
    \/ \E r \in Runs : SetCursor(r)
    \/ \E r \in Runs : ReadLastRow(r)
    \/ \E r \in Runs : WriteSheet(r)
    \/ \E r \in Runs : Telegram(r)
    \/ \E r \in Runs : Slack(r)
    \/ \E r \in Runs : Return(r)
    \/ NextLife

SpecFresh == Init /\ [][NextFresh]_vars

\* a SheetLayout made for some configuration, and the calls of getDataMap
InitLayout ==
    /\ InitState
    /\ layout \in {NewSheetLayout(cfg) : cfg \in Configs(MaxColLen)}
    /\ proxy = IdleProxy

GetDataMap ==
    /\ layout' = GetDataMapOf(layout)
    /\ UNCHANGED <<relayVars, lastHistoryId, lifeVars>>
    /\ UNCHANGED proxy

NextLayout == GetDataMap

SpecLayout == InitLayout /\ [][NextLayout]_vars

(* ---- pushProxy, step by step ---- *)
\* Pub/Sub delivers an event to the handler
Receive(ev) ==
    /\ proxy.pc = "idle"
    /\ proxy' = [IdleProxy EXCEPT !.pc = "check", !.event = ev]
    /\ UNCHANGED <<relayVars, lastHistoryId, lifeVars, layout>>

\* if (!pubsubMessage || !pubsubMessage.message) return
CheckMessage ==
    /\ proxy.pc = "check"
    /\ proxy' = IF NoMessage(proxy.event) THEN ProxyEnd(proxy, FALSE)
                ELSE [proxy EXCEPT !.pc = "decode"]
    /\ UNCHANGED <<relayVars, lastHistoryId, lifeVars, layout>>

\* messageData = Buffer.from(pubsubMessage.message.data, 'base64').toString()
Decode ==
    /\ proxy.pc = "decode"
    /\ proxy' = IF DecodeThrows(proxy.event.data) THEN ProxyEnd(proxy, TRUE)
                ELSE [proxy EXCEPT !.pc = "parse",
                                   !.text = Base64Decode(proxy.event.data)]
    /\ UNCHANGED <<relayVars, lastHistoryId, lifeVars, layout>>

\* try { notification = JSON.parse(messageData) } catch (err) { return }
Parse ==
    /\ proxy.pc = "parse"
    /\ proxy' = IF ParseThrows(proxy.text) THEN ProxyEnd(proxy, FALSE)
                ELSE [proxy EXCEPT !.pc = "fields"]
    /\ UNCHANGED <<relayVars, lastHistoryId, lifeVars, layout>>

\* const { emailAddress, historyId } = notification;
\* if (!emailAddress || !historyId) return
CheckFields ==
    /\ proxy.pc = "fields"
    /\ proxy' = IF DestructureThrows(proxy.text) THEN ProxyEnd(proxy, TRUE)
                ELSE IF ~NotificationComplete(proxy.text.p)
                     THEN ProxyEnd(proxy, FALSE)
                ELSE [proxy EXCEPT !.pc = "post"]
    /\ UNCHANGED <<relayVars, lastHistoryId, lifeVars, layout>>

\* axios.post(GAS_API_URL, {apiKey, task, data}): the request leaves
Post ==
    /\ proxy.pc = "post"
    /\ proxy' = [proxy EXCEPT !.pc = "await",
                              !.posts = Append(@, ForwardBody(proxy.text.p))]
    /\ UNCHANGED <<relayVars, lastHistoryId, lifeVars, layout>>

\* the await ends, and the reply's status, success and message are logged
Answer(reply) ==
    /\ proxy.pc = "await"
    /\ proxy' = ProxyEnd([proxy EXCEPT !.reply = reply],
                         AxiosThrows(reply) \/ LogThrows(reply))
    /\ UNCHANGED <<relayVars, lastHistoryId, lifeVars, layout>>

\* the handler's promise has settled
ProxyReturn ==
    /\ proxy.pc = "done"
    /\ proxy' = IdleProxy
    /\ UNCHANGED <<relayVars, lastHistoryId, lifeVars, layout>>

\* the proxy alone, one event at a time
NextProxy ==
    \/ \E ev \in Events(MaxHistoryId) : Receive(ev)
    \/ CheckMessage
    \/ Decode
    \/ Parse
    \/ CheckFields
    \/ Post
    \/ \E reply \in Replies : Answer(reply)
    \/ ProxyReturn

SpecProxy == Init /\ [][NextProxy]_vars

(* ---- properties ---- *)
Done(r) == run[r].pc = "done"

Succeeded(r) ==
    Done(r) /\ run[r].result.status = "returned" /\ run[r].result.success

\* the notification of run r carried a cursor older than the one stored
\* when the run began
StaleNotification(r) ==
    /\ obs[r].before # NoCursor
    /\ run[r].data.historyId < obs[r].before

\* C1: in a sequence of relay runs, one after another, the stored cursor
\* lastHistoryId never decreases from one state to the next, whatever
\* cursors the notifications carry.
CursorNeverDecreases ==
    [][(lastHistoryId # NoCursor /\ lastHistoryId' # NoCursor)
         => lastHistoryId' >= lastHistoryId]_vars

\* a run whose notification was older than the stored cursor has written
\* the cursor, and the mailbox had moved on since the notification
C1Witness ==
    \E r \in Runs :
        /\ StaleNotification(r)
        /\ obs[r].cursorWrites # << >>
        /\ lastHistoryId > run[r].data.historyId

\* C2: when relay runs overlap, a run that writes its cursor late cannot
\* undo progress: the stored cursor is at least the cursor every finished
\* run has written.
LateWriteKeepsMax ==
    \A r \in Runs :
        (Done(r) /\ obs[r].cursorWrites # << >>)
            => lastHistoryId >= obs[r].cursorWrites[1]

\* C3: a run that fetched records and did not get its rows into the sheet
\* (setValues threw, or the run was cut off before it) leaves the stored
\* cursor as it was before the run.
FailedWriteKeepsCursor ==
    \A r \in Runs :
        (/\ Done(r)
         /\ run[r].result.status \in {"threw", "timeout"}
         /\ obs[r].lists > 0 /\ ~obs[r].listFailed
         /\ obs[r].sheetWrites = 0)
            => lastHistoryId = obs[r].before

\* C4: a run fetches from the stored cursor whenever there is one, and from
\* its notification's cursor only when there is none.
FetchFromStoredCursor ==
    [][\A r \in Runs :
          (run[r].pc = "idle" /\ run'[r].pc = "list")
              => run'[r].historyId =
                    IF lastHistoryId # NoCursor THEN lastHistoryId
                    ELSE run'[r].data.historyId]_vars

\* a run is fetching from the stored cursor although its notification
\* carried another one
C4Witness ==
    \E r \in Runs :
        /\ run[r].pc = "list"
        /\ obs[r].before # NoCursor
        /\ run[r].data.historyId # obs[r].before
        /\ run[r].historyId = obs[r].before

\* C5: when History.list fails, on the first page or on a later one, the
\* stored cursor after the run is the one from before the run.
ListingFailureKeepsCursor ==
    \A r \in Runs : obs[r].listFailed => lastHistoryId = obs[r].before

\* the listing failed on a later page, after a page that reported a newer
\* history id
C5Witness ==
    \E r \in Runs :
        /\ obs[r].listFailed
        /\ obs[r].lists >= 2
        /\ obs[r].before # NoCursor
        /\ obs[r].before < mailboxId

\* C6: a message that cannot be looked up never ends the fetch: the fetch
\* returns the records of exactly the references whose lookup succeeded, in
\* the order listed, no exception leaves it, and the cursor is still stored.
LookupFailureIsSkipped ==
    \A r \in Runs :
        /\ run[r].pc \in {"list", "setprop", "lastrow", "write"}
             => run[r].emails =
                    SelectSeq(obs[r].listed, LAMBDA m : m \notin obs[r].skipped)
        /\ (Done(r) /\ obs[r].skipped # {} /\ ~obs[r].listFailed
              /\ run[r].result.status # "timeout")
             => Len(obs[r].cursorWrites) = 1

\* a fetch of one message that exists and one that is gone is over, with
\* one record
C6Witness ==
    \E r \in Runs :
        /\ run[r].pc = "lastrow"
        /\ Len(obs[r].listed) = 2
        /\ Cardinality(obs[r].skipped) = 1
        /\ Len(run[r].emails) = 1
        /\ obs[r].cursorWrites = <<mailboxId>>

\* C7: a run whose fetch returns no record writes nothing to the sheet and
\* sends no chat message, stores the new cursor and returns success; a run
\* that goes on to the sheet has records.
EmptyFetchOnlyAdvances ==
    \A r \in Runs :
        /\ (Done(r) /\ run[r].result = Returned(TRUE, MsgNoProcess))
             => /\ obs[r].sheetWrites = 0
                /\ obs[r].chat = {}
                /\ Len(obs[r].cursorWrites) = 1
                /\ lastHistoryId = obs[r].cursorWrites[1]
        /\ run[r].pc \in {"lastrow", "write", "telegram", "slack"}
             => run[r].emails # << >>
        /\ (Succeeded(r) /\ obs[r].sheetWrites = 0)
             => run[r].result.message = MsgNoProcess

\* an empty fetch has moved the stored cursor forward
C7Witness ==
    \E r \in Runs :
        /\ Done(r) /\ run[r].result = Returned(TRUE, MsgNoProcess)
        /\ obs[r].before # NoCursor
        /\ lastHistoryId > obs[r].before
        /\ sheet = << >>

SuccessSideEffects ==
    \A r \in Runs :
        Succeeded(r)
            => /\ obs[r].sheetWrites <= 1
               /\ Len(obs[r].cursorWrites) = 1

\* a successful run over several pages with one block appended and both
\* chat messages sent
C9Witness ==
    \E r \in Runs :
        /\ Succeeded(r)
        /\ obs[r].lists >= 2
        /\ obs[r].sheetWrites = 1
        /\ obs[r].chat = {"telegram", "slack"}
        /\ Len(sheet) >= 2

\* C10: data that is no object, or lacks historyId or emailAddress, is
\* rejected before any I/O: no cursor read, no listing, no sheet write, no
\* cursor write, and the stored cursor as before.
InvalidDataNoIO ==
    \A r \in Runs :
        (/\ run[r].pc # "idle"
         /\ \/ ~run[r].data.obj
            \/ "historyId" \notin run[r].data.fields
            \/ "emailAddress" \notin run[r].data.fields)
            => /\ Done(r)
               /\ run[r].result.status = "returned"
               /\ ~run[r].result.success
               /\ run[r].result.message = MsgInvalidData
               /\ obs[r].reads = 0 /\ obs[r].lists = 0
               /\ obs[r].sheetWrites = 0 /\ obs[r].cursorWrites = << >>
               /\ lastHistoryId = obs[r].before

\* a notification without historyId was rejected while a cursor is stored
C10Witness ==
    \E r \in Runs :
        /\ Done(r)
        /\ run[r].data.obj /\ run[r].data.fields = {"emailAddress"}
        /\ run[r].result.message = MsgInvalidData
        /\ lastHistoryId # NoCursor

\* C11: a notification whose historyId or emailAddress is present but empty
\* is rejected as invalid by processNewEmails, with no listing and no
\* cursor write.
EmptyFieldRejected ==
    \A r \in Runs :
        (/\ run[r].pc # "idle"
         /\ run[r].data.obj /\ run[r].data.fields = RequiredFields
         /\ \/ run[r].data.emailAddress = ""
            \/ run[r].data.historyId = EmptyId)
            => /\ Done(r)
               /\ run[r].result.message = MsgInvalidData
               /\ obs[r].lists = 0
               /\ obs[r].cursorWrites = << >>

\* C12: no failure of the chat step is fatal: a run that has written its
\* rows ends with a success result, having tried both channels.
NotifyNeverFatal ==
    \A r \in Runs :
        (Done(r) /\ obs[r].sheetWrites = 1 /\ run[r].result.status # "timeout")
            => /\ Succeeded(r)
               /\ obs[r].tried = {"telegram", "slack"}

\* C13: the append is serialized: while a run is at its chat step, the rows
\* it wrote are in the sheet where it wrote them, whatever other runs did.
AppendNotOverwritten ==
    \A r \in Runs :
        run[r].pc \in {"telegram", "slack"}
            => SubSeq(sheet, run[r].lastRow + 1 - HeaderRows,
                      run[r].lastRow - HeaderRows + Len(run[r].emails))
                 = run[r].emails

\* C14: whatever call fails inside a run, the run ends by returning a
\* result {success, message}: no exception leaves processNewEmails.
AlwaysStructuredResult ==
    \A r \in Runs :
        (Done(r) /\ run[r].result.status # "timeout")
            => run[r].result.status = "returned"

\* C18: doPost compares the key before anything else: a request whose apiKey
\* is not the configured one is answered with the failure invalidApiKey, no
\* handler is called, and the run reads and writes nothing: the stored
\* cursor, the sheet and the chat channels are as they were.
KeyCheckedFirst ==
    \A r \in Runs :
        (run[r].pc # "idle" /\ obs[r].apiKey # ApiKey)
            => /\ Done(r)
               /\ run[r].result = Returned(FALSE, MsgInvalidApiKey)
               /\ ~obs[r].handled
               /\ obs[r].reads = 0 /\ obs[r].lists = 0
               /\ obs[r].cursorWrites = << >>
               /\ obs[r].sheetWrites = 0
               /\ obs[r].tried = {}
               /\ lastHistoryId = obs[r].before

\* a request with another key and a task that exists has been answered
\* while a cursor was stored and the sheet had rows
C18Witness ==
    \E r \in Runs :
        /\ Done(r) /\ obs[r].apiKey = WrongKey
        /\ run[r].result.message = MsgInvalidApiKey
        /\ lastHistoryId # NoCursor /\ sheet # << >>

\* C19: end to end.  With no stored cursor, a notification whose listing
\* returns two messages, both resolvable, ends with exactly these two rows
\* appended below the header, one message tried on each chat channel, and
\* the stored cursor at the history id the listing reported.  The same
\* notification again, with the mailbox where the stored cursor is, is
\* fetched from the stored cursor, lists nothing, writes no row and leaves
\* the cursor where it was.
EndToEnd ==
    \A r \in Runs :
        /\ (/\ Succeeded(r)
            /\ run[r].result.message = MsgProcessSuccess
            /\ obs[r].before = NoCursor
            /\ Len(obs[r].listed) = 2 /\ obs[r].skipped = {})
               => /\ sheet = obs[r].listed
                  /\ GetLastRow(sheet) = HeaderRows + 2
                  /\ obs[r].sheetWrites = 1
                  /\ obs[r].tried = {"telegram", "slack"}
                  /\ obs[r].chat \subseteq obs[r].tried
                  /\ Len(obs[r].cursorWrites) = 1
                  /\ obs[r].cursorWrites[1] >= obs[r].listed[2]
                  /\ obs[r].cursorWrites[1] <= mailboxId
                  /\ lastHistoryId = obs[r].cursorWrites[1]
        /\ (/\ Done(r) /\ run[r].result.status = "returned"
            /\ obs[r].handled /\ IsValidData(run[r].data)
            /\ ~obs[r].listFailed
            /\ StaleNotification(r)
            /\ obs[r].before = mailboxId)
               => /\ run[r].result = Returned(TRUE, MsgNoProcess)
                  /\ obs[r].listed = << >>
                  /\ obs[r].sheetWrites = 0
                  /\ obs[r].tried = {}
                  /\ lastHistoryId = obs[r].before

\* the first notification has come again after two rows were appended and
\* nothing failed: it is answered "no new email" with the cursor at the
\* mailbox's position
C19Witness ==
    /\ ~faulted
    /\ Len(sheet) = 2
    /\ \E r \in Runs :
          /\ Done(r) /\ StaleNotification(r)
          /\ run[r].data.historyId = origin
          /\ run[r].result = Returned(TRUE, MsgNoProcess)
          /\ obs[r].before = mailboxId
          /\ lastHistoryId = mailboxId

\* C20: a fetch from the mailbox's current history id returns no message
\* and a new cursor equal to the start, so a run that begins with the stored
\* cursor at the mailbox's position writes the same cursor back.
IdempotentEmptyRange ==
    \A r \in Runs :
        /\ (run[r].pc = "setprop" /\ run[r].historyId = mailboxId)
               => /\ run[r].emails = << >>
                  /\ run[r].last = run[r].historyId
        /\ (/\ Done(r) /\ obs[r].cursorWrites # << >>
            /\ obs[r].before = mailboxId)
               => /\ obs[r].listed = << >>
                  /\ obs[r].cursorWrites = <<obs[r].before>>
                  /\ lastHistoryId = obs[r].before

\* a fetch from the position of the mailbox has been repeated: the sheet
\* has rows from an earlier run, and this run wrote the cursor it found
C20Witness ==
    /\ sheet # << >>
    /\ \E r \in Runs :
          /\ Done(r)
          /\ obs[r].before = mailboxId
          /\ obs[r].cursorWrites = <<mailboxId>>
          /\ mailboxId \in added

(* ---- properties of initWatch and stopWatch ---- *)
CallOver(c) == call[c].pc \in {"idle", "done"}

Completed(c, op) ==
    call[c].op = op /\ call[c].pc = "done" /\ call[c].status = "returned"

\* a trigger that has not fired and is due one hour before the watch expires
RenewalPending ==
    watch # NoWatch
    /\ \E t \in Pending(triggers) : t.at = watch - OneHour

\* C15: when initWatch has run to its end, the watch it registered is the
\* registered one, exactly one trigger is new, unfired and due one hour
\* before that watch expires, the trigger that started the run is gone, every
\* other trigger is as it was, and IsWatch is 'true'.
StartPostcondition ==
    \A c \in Callers :
        Completed(c, "initWatch")
            => LET new == triggers \ call[c].before
               IN  /\ watch # NoWatch /\ watch = call[c].expiration
                   /\ Cardinality(new) = 1
                   /\ \A t \in new : /\ t.at = watch - OneHour
                                     /\ ~t.fired
                                     /\ t.uid \notin Uids(call[c].before)
                   /\ triggers \ new
                        = {t \in call[c].before : t.uid # call[c].uid}
                   /\ call[c].uid \notin Uids(triggers)
                   /\ IsWatch = "true"

\* a renewal has run to its end while another trigger was waiting
C15Witness ==
    /\ Completed("timer", "initWatch")
    /\ call["timer"].uid # NoUid
    /\ Cardinality(call["timer"].before) >= 2

\* C16: when stopWatch has run to its end, no watch is registered, no
\* unfired trigger of initWatch is left, IsWatch is 'false' and no cursor
\* is stored, whatever runs of initWatch came before.
StopPostcondition ==
    \A c \in Callers :
        Completed(c, "stopWatch")
            => /\ watch = NoWatch
               /\ Pending(triggers) = {}
               /\ IsWatch = "false"
               /\ lastHistoryId = NoCursor

\* C17: whenever IsWatch is 'true' and neither initWatch nor stopWatch is
\* under way, an unfired trigger is due one hour before the registered watch
\* expires; and a run of initWatch started by a trigger ends with IsWatch
\* 'true', the watch it registered, and such a trigger.
RenewalKeepsListening ==
    /\ (IsWatch = "true" /\ \A c \in Callers : CallOver(c)) => RenewalPending
    /\ \A c \in Callers :
          (call[c].op = "initWatch" /\ call[c].pc = "done"
             /\ call[c].uid # NoUid)
             => /\ call[c].status = "returned"
                /\ IsWatch = "true"
                /\ watch = call[c].expiration
                /\ RenewalPending

(* ---- properties of the fetch ---- *)
\* the cursor a fetch began from
FromCursor(r) == EffectiveCursor(obs[r].before, run[r].data)

CursorCreatedByStart ==
    \A c \in Callers :
        Completed(c, "initWatch") => lastHistoryId # NoCursor

(* ---- properties of SheetLayout ---- *)
\* the place of a letter in the alphabet, whatever its case
LetterOf(c) == IF c \in LowerCase THEN c - 96 ELSE c - 64

\* the value of a column name in bijective base 26
RECURSIVE Base26(_)
Base26(col) ==
    IF col = << >> THEN 0
    ELSE LetterOf(Head(col)) * 26 ^ (Len(col) - 1) + Base26(Tail(col))

\* the column name of an index: the inverse of Base26
RECURSIVE ToLetters(_)
ToLetters(n) ==
    IF n = 0 THEN << >>
    ELSE Append(ToLetters((n - 1) \div 26), ((n - 1) % 26) + 1)

\* C23: getDataMap gives every configured variable the index of its column
\* in bijective base 26, whatever the case of the letters; the index names
\* the column again; and A, B, Z, AA are 1, 2, 26, 27.
ColumnIndexIsBase26 ==
    layout.cached =>
        \A v \in DOMAIN layout.config :
            LET col == layout.config[v]
                n   == layout.dataMap[v]
            IN  /\ n = Base26(col)
                /\ ToLetters(n) = [i \in 1 .. Len(col) |-> LetterOf(col[i])]
                /\ col = <<65>> => n = 1
                /\ col = <<66>> => n = 2
                /\ col = <<90>> => n = 26
                /\ col = <<65, 65>> => n = 27

\* getDataMap has answered for a column of two letters, one in lower case
C23Witness ==
    /\ layout.cached
    /\ \E v \in DOMAIN layout.config :
          /\ Len(layout.config[v]) = 2
          /\ layout.config[v][1] \in LowerCase
          /\ layout.config[v][2] \in UpperCase
          /\ layout.dataMap[v] > 26

\* C24: a run whose listing failed, on whatever page, has written no row,
\* tried no chat channel and stored no cursor, and it has returned a result
\* with success false and one of the messages of MESSAGES.
ListingFailureAborts ==
    \A r \in Runs :
        (Done(r) /\ obs[r].listFailed)
            => /\ obs[r].sheetWrites = 0
               /\ obs[r].tried = {}
               /\ obs[r].cursorWrites = << >>
               /\ run[r].emails = << >>
               /\ run[r].result.status = "returned"
               /\ ~run[r].result.success
               /\ run[r].result.message \in Messages

(* ---- properties of the paging ---- *)
StrictlyAscending(s) == \A i, j \in 1 .. Len(s) : i < j => s[i] < s[j]

Rows(rows, a, b) == SubSeq(rows, a - HeaderRows, b - HeaderRows)

\* C26: the write of a run with n >= 1 messages puts its n rows, in the
\* order fetched, at the sheet rows lastRow + 1 .. lastRow + n, lastRow being
\* what the run read with getLastRow; the rows up to lastRow and the rows
\* after the block are as they were, and it is the run's only write.
BlockAfterLastRow ==
    [][\A r \in Runs :
          (run[r].pc = "write" /\ run'[r].pc = "telegram")
             => LET n       == Len(run[r].emails)
                    lastRow == run[r].lastRow
                IN  /\ n >= 1
                    /\ GetLastRow(sheet') >= lastRow + n
                    /\ Rows(sheet', lastRow + 1, lastRow + n) = run[r].emails
                    /\ Rows(sheet', HeaderRows + 1, lastRow)
                         = Rows(sheet, HeaderRows + 1, lastRow)
                    /\ Rows(sheet', lastRow + n + 1, GetLastRow(sheet'))
                         = Rows(sheet, lastRow + n + 1, GetLastRow(sheet))
                    /\ obs'[r].sheetWrites = 1]_vars

\* a run has written its rows below rows that were there
C26Witness ==
    \E r \in Runs :
        /\ run[r].pc = "telegram"
        /\ run[r].lastRow > HeaderRows
        /\ run[r].emails # << >>
        /\ obs[r].sheetWrites = 1
        /\ Rows(sheet, run[r].lastRow + 1, run[r].lastRow + Len(run[r].emails))
             = run[r].emails

\* C27: a run of initWatch without an event deletes no trigger and does not
\* fail for want of one: no step of it removes a trigger, the step after
\* the scheduling goes on to set IsWatch, and at its end the triggers are
\* those there were before and the one it scheduled.
ManualStartDeletesNothing ==
    [][\A c \in Callers :
          (call[c].op = "initWatch" /\ call[c].uid = NoUid)
             => /\ triggers \subseteq triggers'
                /\ (call[c].pc = "delete" /\ call'[c].pc # "delete")
                      => (triggers' = triggers /\ call'[c].pc = "flag")
                /\ (call[c].pc = "flag" /\ call'[c].pc = "done")
                      => /\ call'[c].status = "returned"
                         /\ call[c].before \subseteq triggers'
                         /\ Cardinality(triggers' \ call[c].before) = 1]_vars

\* the user has run initWatch to its end while a trigger was waiting
C27Witness ==
    /\ Completed("user", "initWatch")
    /\ call["user"].uid = NoUid
    /\ Pending(call["user"].before) # {}
    /\ call["user"].before \subseteq triggers

(* ---- properties of the response ---- *)
\* JSON.stringify(response) in doPost: the members of the object on the
\* wire.  A TextOutput has no member of its own to encode; a member whose
\* value is undefined is left out.
WireMembers(result) ==
    IF result.textOutput THEN {}
    ELSE IF result.message = MsgNoHistory THEN {"success"}
    ELSE {"success", "message"}

\* C28: every response of the web app encodes one object with the members
\* success and message; for invalid data, success is false and the message
\* is the invalid-data message.
SameWireShape ==
    \A r \in Runs :
        (Done(r) /\ run[r].result.status = "returned")
            => /\ WireMembers(run[r].result) = {"success", "message"}
               /\ (obs[r].handled /\ ~IsValidData(run[r].data))
                     => /\ ~run[r].result.success
                        /\ run[r].result.message = MsgInvalidData

(* ---- properties of the two halves of the state ---- *)
\* C29: no step of initWatch, begun by the user or by a trigger, changes the
\* stored cursor, and no step of a relay run changes IsWatch, the registered
\* watch or the triggers; the cursor changes in the relay's setProperty and
\* in stopWatch only.
CursorAndWatchIndependent ==
    [][/\ \A c \in Callers :
            (call'[c] # call[c]
               /\ (call[c].op = "initWatch" \/ call'[c].op = "initWatch"))
               => lastHistoryId' = lastHistoryId
       /\ \A r \in Runs :
            run'[r] # run[r]
               => /\ IsWatch' = IsWatch
                  /\ watch' = watch
                  /\ triggers' = triggers
       /\ lastHistoryId' # lastHistoryId
            => \/ \E r \in Runs : run[r].pc = "setprop"
               \/ \E c \in Callers :
                     call[c].op = "stopWatch" /\ call[c].pc = "delcursor"]_vars

\* a renewal has run to its end with a cursor stored by an earlier relay run
C29Witness ==
    /\ Completed("timer", "initWatch")
    /\ lastHistoryId # NoCursor
    /\ sheet # << >>

\* C30: whenever no invocation of initWatch or stopWatch is under way, at
\* most one trigger of initWatch that has not fired is installed.
AtMostOnePendingRenewal ==
    (\A c \in Callers : CallOver(c))
        => Cardinality(Pending(triggers)) <= 1

\* C31: whenever no invocation of initWatch or stopWatch is under way, the
\* property IsWatch is 'true' exactly when a watch is registered at Gmail,
\* and exactly when a trigger of initWatch that has not fired is installed.
SubscriptionStateAgrees ==
    (\A c \in Callers : CallOver(c))
        => /\ (IsWatch = "true") <=> (watch # NoWatch)
           /\ (IsWatch = "true") <=> (Pending(triggers) # {})

\* C32: while IsWatch is 'false' as stopWatch left it, no watch is
\* registered at Gmail and no invocation of initWatch or stopWatch is under
\* way, no cursor is stored.
CursorAbsentWhileStopped ==
    (/\ IsWatch = "false"
     /\ watch = NoWatch
     /\ \A c \in Callers : CallOver(c))
        => lastHistoryId = NoCursor

\* C33: with runs that overlap, no message is a row of the sheet twice.
NoRowTwice ==
    \A m \in Ids : Count(sheet, m) <= 1

(* ---- properties of the proxy ---- *)
\* the event carries a message whose data is the base64 of the JSON text of
\* a value with an emailAddress and a historyId that are not empty
Forwardable(ev) ==
    /\ ev.hasData /\ ev.hasMessage
    /\ ev.data.kind = "base64"
    /\ ev.data.text.kind = "value"
    /\ ev.data.text.p.emailAddress # ""
    /\ ev.data.text.p.historyId # EmptyId

\* C34: when the handler has ended, it has issued one POST if the event is
\* forwardable and none otherwise; the POST has the configured key, the task
\* processNewEmails, and the emailAddress and historyId of the notification.
ForwardsIffComplete ==
    proxy.pc = "done"
        => IF Forwardable(proxy.event)
           THEN /\ Len(proxy.posts) = 1
                /\ proxy.posts[1].apiKey = ApiKey
                /\ proxy.posts[1].task = "processNewEmails"
                /\ proxy.posts[1].data.fields = RequiredFields
                /\ proxy.posts[1].data.emailAddress
                      = proxy.event.data.text.p.emailAddress
                /\ proxy.posts[1].data.historyId
                      = proxy.event.data.text.p.historyId
           ELSE proxy.posts = << >>

\* a forwardable event has been forwarded and the web app has answered
C34Witness ==
    /\ proxy.pc = "done"
    /\ Forwardable(proxy.event)
    /\ Len(proxy.posts) = 1
    /\ proxy.reply.kind = "ok"

\* C35: the handler always completes: whatever the event and however the
\* POST ends, no error leaves it, and it has issued at most one POST.
ProxyAlwaysCompletes ==
    /\ proxy.status # "threw"
    /\ Len(proxy.posts) <= 1
    /\ proxy.pc = "done" => proxy.status = "returned"

\* the POST failed, the error was caught, and the handler has completed
C35Witness ==
    /\ proxy.pc = "done"
    /\ proxy.caught
    /\ AxiosThrows(proxy.reply)
    /\ Len(proxy.posts) = 1

(* ---- termination ---- *)
\* C36: every relay run that is under way ends, with a result, an exception
\* or the runtime's cut-off, provided each of its calls returns or fails.
RunTerminates ==
    \A r \in Runs : Active(r) ~> Done(r)

\* a run that listed more than one page has ended with a success
C36Witness ==
    \E r \in Runs : Succeeded(r) /\ obs[r].lists >= 2 /\ obs[r].sheetWrites = 1

====
